---- MODULE Spec2Model ----
(***************************************************************************)
(* Model of telegram-export's synchronisation engine (downloader.py):      *)
(*   _EntityDownloader          the entity queue (extend_pending,          *)
(*                              pop_pending), alone under SpecQueue        *)
(*   Downloader.save_messages   the resumable paging loop over one         *)
(*                              conversation's history, under Spec,        *)
(*                              SpecResume, SpecRefs and SpecErrors (with  *)
(*                              history variables), SpecTimed (with a      *)
(*                              clock) and SpecRun (with fairness)         *)
(*   Downloader.save_admin_log  the admin-log loop, under SpecAdminLog     *)
(*   Downloader.check_media, _get_media_type          under SpecMedia      *)
(*   utils.encode_msg_entities, decode_msg_entities   under SpecCodec      *)
(* The dumper and the Telegram client are collaborators. The dumper is a   *)
(* transactional store: `tx` is what the open connection sees, commit()    *)
(* copies it to `db`, and a process that dies loses what it had not        *)
(* committed. The client is the remote history, the message ids 1..top.    *)
(* Wall-clock time is counted in whole seconds since the last request of   *)
(* each kind (`clock`). The message progress bar (pbar, found) is not part *)
(* of the state.                                                           *)
(***************************************************************************)
EXTENDS Integers, Sequences, FiniteSets, TLC

\* ------------------------------------------------------------------ bounds
MaxTop    == 3   \* the remote history holds at most this many message ids
MaxLimit  == 2   \* dumper.chunk_size ranges over 1..MaxLimit
MaxChunks == 2   \* dumper.max_chunks ranges over 0..MaxChunks (0: unlimited)
MaxEntities == 2 \* a message carries at most this many formatting entities
MaxWork   == 1   \* a remote request takes 0..MaxWork seconds
AdminLimit == 2  \* the page size of GetAdminLogRequest (limit=100 in the
                 \* source), scaled to the event counts 0..MaxTop

\* ----------------------------------------------------------------- helpers
Max(S) == CHOOSE x \in S : \A y \in S : y <= x
Min(S) == CHOOSE x \in S : \A y \in S : x <= y
Range(s) == {s[i] : i \in 1..Len(s)}

\* ---------------------------------------------------------------- entities
\* An entity as seen in an API response. type is the telethon class; the
\* flags are the ones extend_pending reads (deleted, min for a User; left for
\* a Channel). "Forbidden" stands for UserEmpty, ChatEmpty, ChatForbidden and
\* ChannelForbidden, which extend_pending treats alike.
Ent(type, id, deleted, min, left) ==
    [type |-> type, id |-> id, deleted |-> deleted, min |-> min, left |-> left]

User1      == Ent("User", 1, FALSE, FALSE, FALSE)
User2      == Ent("User", 2, FALSE, FALSE, FALSE)
UserDel    == Ent("User", 3, TRUE, FALSE, FALSE)
UserMin    == Ent("User", 4, FALSE, TRUE, FALSE)
Chat1      == Ent("Chat", 1, FALSE, FALSE, FALSE)
Channel1   == Ent("Channel", 1, FALSE, FALSE, FALSE)
ChannelLeft == Ent("Channel", 2, FALSE, FALSE, TRUE)
Forbidden1 == Ent("Forbidden", 1, FALSE, FALSE, FALSE)

\* utils.get_peer_id: users keep their id, chats are negated, channels are
\* negated below a base no chat id reaches, so that the three kinds never
\* collide. telethon's base is 10^12; TLC's integers are 32 bits wide, so the
\* base here is 10^9, still above every id of the model.
get_peer_id(e) ==
    CASE e.type = "User"    -> e.id
      [] e.type = "Chat"    -> 0 - e.id
      [] e.type = "Channel" -> 0 - (1000000000 + e.id)
      [] OTHER              -> 0

\* ------------------------------------------------------------------- store
\* The dumper's tables for the one conversation being dumped: the Message
\* rows (by id), the Resume row and the entity rows (by peer id). refs is
\* the peer ids the persisted Message rows refer to (from_id, fwd_from);
\* events is the AdminLog rows (by event id).
NoResume == [id |-> 0, date |-> 0, stop_at |-> 0]
EmptyStore ==
    [msgs |-> {}, resume |-> NoResume, entities |-> {}, participants |-> FALSE,
     refs |-> {}, events |-> {}]

\* dump_user / dump_chat / dump_channel / dump_supergroup: an upsert by id.
dump_entity_row(store, eid) ==
    [store EXCEPT !.entities = @ \cup {eid}]

\* ------------------------------------------------------ _EntityDownloader
\* The queue object: _pending (a deque), _pending_ids and _dumped_ids.
\* photo_fmt is configuration the model leaves open: a profile photo may or
\* may not be downloaded, so its download may raise wherever it is called.
NewEntityDownloader ==
    [pending |-> <<>>, pending_ids |-> {}, dumped_ids |-> {}]

dumped_count(ed) == Cardinality(ed.dumped_ids)
total_count(ed)  == Cardinality(ed.pending_ids) + Cardinality(ed.dumped_ids)
queue_len(ed)    == Len(ed.pending)

\* The outcomes of one _dump_entity call:
\*   "ok"           every remote call in it succeeded
\*   "full_raises"  GetFullUserRequest / GetFullChannelRequest raised
\*   "photo_raises" download_profile_photo's download_file raised
\* A Chat needs no full-info request.
DumpOutcomes(entity) ==
    {"ok", "photo_raises"}
    \cup (IF entity.type \in {"User", "Channel"} THEN {"full_raises"} ELSE {})

\* The mark step of _dump_entity (lines 96-97).
mark_dumped(ed, eid) ==
    [ed EXCEPT !.pending_ids = @ \ {eid}, !.dumped_ids = @ \cup {eid}]

\* _dump_entity(entity) on the pair s = [ed, dumper]: the result carries the
\* new pair, the sleep it returns and whether it raised instead.
dump_entity(s, entity, outcome) ==
    LET eid == get_peer_id(entity)
        needed_sleep == IF entity.type = "Chat" THEN 0 ELSE 1
    IN  IF outcome = "full_raises"
        THEN [ed |-> s.ed, dumper |-> s.dumper, sleep |-> 0, raised |-> TRUE]
        ELSE IF outcome = "photo_raises"
        THEN [ed |-> s.ed, dumper |-> dump_entity_row(s.dumper, eid),
              sleep |-> 0, raised |-> TRUE]
        ELSE [ed |-> mark_dumped(s.ed, eid),
              dumper |-> dump_entity_row(s.dumper, eid),
              sleep |-> needed_sleep, raised |-> FALSE]

\* The filter of extend_pending: which entities are dropped without a trace.
Dropped_keeps_left(e) ==
    CASE e.type = "User"    -> e.deleted \/ e.min
      [] e.type = "Chat"    -> FALSE
      [] e.type = "Channel" -> FALSE
      [] OTHER              -> TRUE

Dropped(entity) ==
    CASE entity.type = "User"    -> entity.deleted \/ entity.min
      [] entity.type = "Chat"    -> FALSE
      [] entity.type = "Channel" -> entity.left
      [] OTHER                   -> TRUE

\* The membership test of extend_pending, line 67.
AlreadySeen_pending_only(q, eid) == eid \in q.pending_ids

AlreadySeen(ed, eid) == eid \in ed.dumped_ids \/ eid \in ed.pending_ids

enqueue(ed, entity) ==
    LET eid == get_peer_id(entity)
    IN  IF AlreadySeen(ed, eid) THEN ed
        ELSE [ed EXCEPT !.pending_ids = @ \cup {eid},
                        !.pending = Append(@, entity)]

\* extend_pending without the branch of lines 56-59: a Chat is queued like
\* a User or a Channel.
RECURSIVE enqueue_all_from(_, _, _)
enqueue_all_from(q, entities, i) ==
    IF i > Len(entities) THEN q
    ELSE enqueue_all_from(IF Dropped(entities[i]) THEN q
                          ELSE enqueue(q, entities[i]),
                          entities, i + 1)

extend_pending_queues_chats(s, entities, failAt) ==
    [ed |-> enqueue_all_from(s.ed, entities, 1), dumper |-> s.dumper,
     raised |-> FALSE]

\* extend_pending(entities). failAt is the index of the entity whose
\* _dump_entity raises (0: none does); the loop stops there.
RECURSIVE extend_pending_from(_, _, _, _)
extend_pending_from(s, entities, i, failAt) ==
    IF i > Len(entities)
    THEN [ed |-> s.ed, dumper |-> s.dumper, raised |-> FALSE]
    ELSE LET entity == entities[i]
         IN  IF Dropped(entity)
             THEN extend_pending_from(s, entities, i + 1, failAt)
             ELSE IF entity.type = "Chat"
             THEN LET r == dump_entity(s, entity,
                              IF i = failAt THEN "photo_raises" ELSE "ok")
                  IN  IF r.raised
                      THEN [ed |-> r.ed, dumper |-> r.dumper, raised |-> TRUE]
                      ELSE extend_pending_from(
                               [ed |-> r.ed, dumper |-> r.dumper],
                               entities, i + 1, failAt)
             ELSE extend_pending_from(
                      [ed |-> enqueue(s.ed, entity), dumper |-> s.dumper],
                      entities, i + 1, failAt)

extend_pending(s, entities, failAt) ==
    extend_pending_from(s, entities, 1, failAt)

\* The indexes at which extend_pending can raise: a Chat that is dumped on
\* the spot and whose photo is downloaded.
ExtendFailPoints(entities) ==
    {0} \cup {i \in 1..Len(entities) : entities[i].type = "Chat"}

\* The entities extend_pending hands to _dump_entity (line 58), in order:
\* every Chat of the list, up to the one whose dump raises.
dump_calls(entities, failAt) ==
    SelectSeq(SubSeq(entities, 1,
                     IF failAt = 0 THEN Len(entities) ELSE failAt),
              LAMBDA e : e.type = "Chat")

\* pop_pending with the popleft and the bar left out: the head is dumped and
\* stays queued.
pop_pending_peek(s, outcome) ==
    IF s.ed.pending # <<>>
    THEN LET r == dump_entity(s, Head(s.ed.pending), outcome)
         IN  [ed |-> [r.ed EXCEPT !.pending = s.ed.pending],
              dumper |-> r.dumper, sleep |-> r.sleep,
              raised |-> r.raised, popped |-> FALSE]
    ELSE [ed |-> s.ed, dumper |-> s.dumper, sleep |-> 0,
          raised |-> FALSE, popped |-> FALSE]

\* pop_pending with the pop left out: the queue is never served.
pop_pending_never(s, outcome) ==
    [ed |-> s.ed, dumper |-> s.dumper, sleep |-> 0,
     raised |-> FALSE, popped |-> FALSE]

\* pop_pending(pbar): popleft, then _dump_entity, then pbar.update(1).
\* popped tells whether the bar was advanced.
pop_pending(s, outcome) ==
    IF s.ed.pending # <<>>
    THEN LET entity == Head(s.ed.pending)
             s1 == [ed |-> [s.ed EXCEPT !.pending = Tail(@)],
                    dumper |-> s.dumper]
             r == dump_entity(s1, entity, outcome)
         IN  [ed |-> r.ed, dumper |-> r.dumper, sleep |-> r.sleep,
              raised |-> r.raised, popped |-> ~r.raised]
    ELSE [ed |-> s.ed, dumper |-> s.dumper, sleep |-> 0,
          raised |-> FALSE, popped |-> FALSE]

PopOutcomes(ed) ==
    IF ed.pending = <<>> THEN {"ok"} ELSE DumpOutcomes(Head(ed.pending))

\* ------------------------------------------------------------------ dumper
\* get_resume(context_id): the Resume row, (0, 0, 0) when there is none.
get_resume(store) == store.resume

\* save_resume(context_id, msg=0, msg_date=0, stop_at=0): replaces the row.
save_resume(store, msg, msg_date, stop_at) ==
    [store EXCEPT !.resume = [id |-> msg, date |-> msg_date,
                              stop_at |-> stop_at]]

\* get_message_id(context_id, 'MAX'): the highest persisted message id.
get_message_id_max(store) ==
    IF store.msgs = {} THEN 0 ELSE Max(store.msgs)

\* get_message_count(context_id)
get_message_count(store) == Cardinality(store.msgs)

\* dump_message / dump_message_service: an upsert on (id, context).
dump_message(store, id) == [store EXCEPT !.msgs = @ \cup {id}]

\* dump_admin_log_event(event, context_id, media_id1, media_id2): an upsert.
dump_admin_log_event(store, id) == [store EXCEPT !.events = @ \cup {id}]

\* commit(): the open transaction becomes the committed store.
commit(store) == store

\* dump_participants_delta(context_id, ids)
dump_participants_delta(store) == [store EXCEPT !.participants = TRUE]

\* ------------------------------------------------------------------ remote
\* The remote history holds the message ids 1..top; dates grow with ids.
DateOf(id) == id

\* GetHistoryRequest(offset_id, limit) with add_offset = max_id = min_id = 0:
\* the `limit` newest messages below offset_id (the newest of all when
\* offset_id is 0), newest first.
GetHistory(top, offset_id, limit) ==
    LET hi == IF offset_id = 0 \/ offset_id > top THEN top
              ELSE offset_id - 1
        n  == IF hi < limit THEN hi ELSE limit
    IN  [i \in 1..n |-> hi - i + 1]

\* ------------------------------------------- save_messages: the page logic
\* The locals of the paging loop: req.offset_id, req.offset_date, req.limit,
\* stop_at and chunks_left.
Locals(offset_id, offset_date, limit, stop, chunks) ==
    [offset_id |-> offset_id, offset_date |-> offset_date, limit |-> limit,
     stop_at |-> stop, chunks_left |-> chunks]

\* The message loop, lines 344-366: every Message and MessageService of the
\* page is dumped, in page order; upto is the number of rows handled.
DumpedIds(history, upto) == {history[j] : j \in 1..upto}

RECURSIVE dump_page(_, _, _)
dump_page(store, history, upto) ==
    IF upto = 0 THEN store
    ELSE dump_message(dump_page(store, history, upto - 1), history[upto])

\* Lines 370-374: the offset moves to the page's minimum, when it has rows.
NewOffsetId(offset_id, history) ==
    IF history = <<>> THEN offset_id ELSE Min(Range(history))

NewOffsetDate(offset_date, history) ==
    IF history = <<>> THEN offset_date
    ELSE Min({DateOf(history[j]) : j \in 1..Len(history)})

\* Line 378: termination (a).
ShortPage_le(n, limit) == n <= limit

ShortPage(n, limit) == n < limit

\* Line 390: termination (b).
ReachedStop_lt(offset_id, stop) == offset_id < stop

ReachedStop_ignores_stop(offset_id, stop) == offset_id <= 0

ReachedStop(offset_id, stop) == offset_id <= stop

\* Lines 403-404: termination (c), on the decremented counter.
BudgetExhausted_le(chunks) == chunks <= 0

BudgetExhausted(chunks) == chunks = 0

\* Lines 383-384 and 392-393: save_resume(target_id, stop_at=max_msg_id).
FinalCursor(store) == save_resume(store, 0, 0, get_message_id_max(store))

\* Lines 398-401: save_resume(target_id, msg, msg_date, stop_at).
PageCursor_max(store, offset_id, offset_date, stop) ==
    save_resume(store, offset_id, offset_date, get_message_id_max(store))

PageCursor_swapped(store, offset_id, offset_date, stop) ==
    save_resume(store, stop, offset_date, offset_id)

PageCursor_below(store, offset_id, offset_date, stop) ==
    save_resume(store, offset_id - 1, offset_date, stop)

PageCursor(store, offset_id, offset_date, stop) ==
    save_resume(store, offset_id, offset_date, stop)

\* Lines 344-406 for one page whose downloads all succeed: the new store,
\* the new locals and how the loop goes on ("a", "b", "c" or "continue").
paging_step_keeps_cursor(store, loc, history) ==
    LET store1 == dump_page(store, history, Len(history))
        oid    == NewOffsetId(loc.offset_id, history)
        odate  == NewOffsetDate(loc.offset_date, history)
        loc1   == [loc EXCEPT !.offset_id = oid, !.offset_date = odate]
        left   == loc.chunks_left - 1
    IN  IF ShortPage(Len(history), loc.limit)
        THEN [store |-> FinalCursor(store1), loc |-> loc1, exit |-> "a"]
        ELSE IF ReachedStop(oid, loc.stop_at)
        THEN [store |-> PageCursor(store1, oid, odate,
                                   get_message_id_max(store1)),
              loc |-> loc1, exit |-> "b"]
        ELSE [store |-> PageCursor(store1, oid, odate, loc.stop_at),
              loc |-> [loc1 EXCEPT !.chunks_left = left],
              exit |-> IF BudgetExhausted(left) THEN "c" ELSE "continue"]

paging_step_budget_first(store, loc, history) ==
    LET store1 == dump_page(store, history, Len(history))
        oid    == NewOffsetId(loc.offset_id, history)
        odate  == NewOffsetDate(loc.offset_date, history)
        loc1   == [loc EXCEPT !.offset_id = oid, !.offset_date = odate]
        left   == loc.chunks_left - 1
    IN  IF BudgetExhausted(left)
        THEN [store |-> PageCursor(store1, oid, odate, loc.stop_at),
              loc |-> [loc1 EXCEPT !.chunks_left = left], exit |-> "c"]
        ELSE IF ShortPage(Len(history), loc.limit)
        THEN [store |-> FinalCursor(store1),
              loc |-> [loc1 EXCEPT !.chunks_left = left], exit |-> "a"]
        ELSE IF ReachedStop(oid, loc.stop_at)
        THEN [store |-> FinalCursor(store1),
              loc |-> [loc1 EXCEPT !.chunks_left = left], exit |-> "b"]
        ELSE [store |-> PageCursor(store1, oid, odate, loc.stop_at),
              loc |-> [loc1 EXCEPT !.chunks_left = left],
              exit |-> "continue"]

paging_step(store, loc, history) ==
    LET store1 == dump_page(store, history, Len(history))
        oid    == NewOffsetId(loc.offset_id, history)
        odate  == NewOffsetDate(loc.offset_date, history)
        loc1   == [loc EXCEPT !.offset_id = oid, !.offset_date = odate]
        left   == loc.chunks_left - 1
    IN  IF ShortPage(Len(history), loc.limit)
        THEN [store |-> FinalCursor(store1), loc |-> loc1, exit |-> "a"]
        ELSE IF ReachedStop(oid, loc.stop_at)
        THEN [store |-> FinalCursor(store1), loc |-> loc1, exit |-> "b"]
        ELSE [store |-> PageCursor(store1, oid, odate, loc.stop_at),
              loc |-> [loc1 EXCEPT !.chunks_left = left],
              exit |-> IF BudgetExhausted(left) THEN "c" ELSE "continue"]

\* ------------------------------------------------------------------- state
VARIABLES
    top,          \* remote: the history holds the ids 1..top
    chunk_size,   \* dumper.chunk_size
    target,       \* the entity of the conversation being dumped
    db,           \* dumper: the committed store
    tx,           \* dumper: the store as the open connection sees it
    pc,           \* "idle", "paging", "draining"; "queue" in SpecQueue;
                  \* "admin_paging", "admin_draining" in SpecAdminLog
    req,          \* req.offset_id, req.offset_date, req.limit
    stop_at,      \* the local stop_at
    chunks_left,  \* the local chunks_left
    ed,           \* entity_downloader
    entbar,       \* entbar.n
    \* history of the behaviour, read by the properties only
    appended,     \* the remote history grew since the start
    completed,    \* paging loops ended by (a) or (b) whose pass saw the
                  \* history as it is now (the pass began at offset 0
                  \* after the history last grew), counted up to 2
    firstDone,    \* the messages and cursor committed by the first of them
    start,        \* the cursor and message count the current run loaded,
                  \* and the ids the run before it had fetched
    pages,        \* the pages of the current (or last) run, one record each
    exitBy,       \* how the paging loop of that run ended, "none" before
    queueOp,      \* SpecQueue: the last operation applied to the queue
    clock,        \* SpecTimed: the time since the last request of each kind
    codec,        \* SpecCodec: the value being encoded and decoded
    mediaOp,      \* SpecMedia: the media being classified and checked
    audit         \* which record of earlier runs is kept for the properties:
                  \* "prev" (start.prev) under SpecResume, "refs" (the
                  \* store's refs) under SpecRefs, "errors" (start.listing
                  \* and exitBy = "raised") under SpecErrors, else "off"

vars == <<top, chunk_size, target, db, tx, pc, req, stop_at, chunks_left, ed,
          entbar, appended, completed, firstDone, start, pages,
          exitBy, queueOp, clock, codec, mediaOp, audit>>

remoteVars == <<top, chunk_size, target>>
localVars  == <<req, stop_at, chunks_left, ed, entbar>>
ghostVars  == <<appended, completed, firstDone, start, pages,
                exitBy, queueOp>>

NoReq == [offset_id |-> 0, offset_date |-> 0, limit |-> 0]
NoStart ==
    [resume |-> NoResume, count |-> 0, max_chunks |-> 0, top |-> 0,
     prev |-> {}, listing |-> "off"]
NoDone == [msgs |-> {}, resume |-> NoResume]
NoOp == [op |-> "none"]
NoClock == [hist |-> -1, full |-> -1, media |-> -1, early |-> {}]
NoCodec == [stage |-> "none"]
NoMediaOp == [stage |-> "none"]

\* The conversations dumped and what a page's users + chats may hold.
Targets == {User2, Channel1}
PageEntities == {<<>>, <<User1, Chat1>>, <<Channel1, UserDel>>}

\* The process is gone: its locals with it, and the open transaction is
\* rolled back.
ResetLocals ==
    /\ req' = NoReq
    /\ stop_at' = 0
    /\ chunks_left' = 0
    /\ ed' = NewEntityDownloader
    /\ entbar' = 0

Init ==
    /\ top \in 1..MaxTop
    /\ chunk_size \in 1..MaxLimit
    /\ target \in Targets
    /\ db = EmptyStore
    /\ tx = EmptyStore
    /\ pc = "idle"
    /\ req = NoReq
    /\ stop_at = 0
    /\ chunks_left = 0
    /\ ed = NewEntityDownloader
    /\ entbar = 0
    /\ appended = FALSE
    /\ completed = 0
    /\ firstDone = NoDone
    /\ start = NoStart
    /\ pages = <<>>
    /\ exitBy = "none"
    /\ queueOp = NoOp
    /\ clock = NoClock
    /\ codec = NoCodec
    /\ mediaOp = NoMediaOp
    /\ audit = "off"

\* ------------------------------------------------- save_messages: actions
\* The message ids a run fetched, over all its pages.
FetchedIds(ps) == UNION {Range(ps[i].ids) : i \in 1..Len(ps)}

\* The entities a page's rows refer to (history.users, history.chats), those
\* that extend_pending does not drop, kept with the rows under SpecRefs.
Referenced(ents) ==
    {get_peer_id(ents[i]) : i \in {j \in 1..Len(ents) : ~Dropped(ents[j])}}

note_refs(store, ents, on) ==
    IF on THEN [store EXCEPT !.refs = @ \cup Referenced(ents)] ELSE store

\* The record kept of one iteration of the paging loop.
PageRecord(offset_id, history, upto, saved, failed) ==
    [offset |-> offset_id, ids |-> history,
     dumped |-> DumpedIds(history, upto), saved |-> saved, failed |-> failed]

\* The outcomes of get_participants for a group or channel (lines 303-313);
\* a private dialog lists no participants.
ParticipantOutcomes(t) ==
    IF t.type \in {"Chat", "Channel"} THEN {"ok", "not_admin", "raises"}
    ELSE {"skipped"}

\* Lines 304-313 with the except clause left out of account: the delta is
\* dumped whatever get_participants did.
after_participants_always(store, outcome) == dump_participants_delta(store)

\* Lines 304-313: ChatAdminRequiredError is caught, the delta is not dumped.
after_participants(store, outcome) ==
    IF outcome = "ok" THEN dump_participants_delta(store) ELSE store

\* What exitBy becomes when an exception leaves save_messages: under
\* SpecErrors the record says so, elsewhere it keeps what it held.
raised_exit(kept) == IF audit = "errors" THEN "raised" ELSE kept

\* INIT, lines 280-323, when nothing in it raises: all but the clock.
RunStart ==
    /\ pc = "idle"
    /\ \E max_chunks \in 0..MaxChunks,
          outcome \in ParticipantOutcomes(target) \ {"raises"} :
         LET s1 == extend_pending(
                       [ed |-> NewEntityDownloader, dumper |-> tx],
                       <<target>>, 0)
             store == after_participants(s1.dumper, outcome)
             resume == get_resume(store)
         IN  /\ ed' = s1.ed
             /\ tx' = store
             /\ req' = [offset_id |-> resume.id, offset_date |-> resume.date,
                        limit |-> chunk_size]
             /\ stop_at' = resume.stop_at
             /\ chunks_left' = max_chunks
             /\ start' = [resume |-> resume,
                          count |-> get_message_count(store),
                          max_chunks |-> max_chunks, top |-> top,
                          prev |-> IF audit = "prev"
                                   THEN FetchedIds(pages) ELSE {},
                          listing |-> IF audit = "errors"
                                      THEN outcome ELSE "off"]
    /\ entbar' = 0
    /\ pc' = "paging"
    /\ pages' = <<>>
    /\ exitBy' = "none"
    /\ UNCHANGED <<remoteVars, db, appended, completed, firstDone, queueOp,
                   codec, mediaOp, audit>>

StartRun == RunStart /\ UNCHANGED clock

\* INIT aborted by an exception: get_input_entity or get_entity raising,
\* the profile photo of a Chat target, or get_participants raising anything
\* but ChatAdminRequiredError.
StartRunRaises ==
    /\ pc = "idle"
    /\ tx' = db
    /\ pages' = <<>>
    /\ exitBy' = raised_exit("none")
    /\ start' = NoStart
    /\ UNCHANGED <<remoteVars, db, pc, localVars, appended, completed,
                   firstDone, queueOp,
                   clock, codec, mediaOp, audit>>

\* One iteration of the paging loop, lines 325-411, when nothing raises:
\* the page is fetched, its entities are offered, one entity is popped, its
\* messages are dumped, the cursor is saved and the whole is committed.
\* ents is history.users + history.chats. All but the clock.
PageIteration(ents) ==
    /\ pc = "paging"
    /\   LET history == GetHistory(top, req.offset_id, req.limit)
             s1 == extend_pending([ed |-> ed, dumper |-> tx], ents, 0)
             s2 == pop_pending(s1, "ok")
             r  == paging_step(s2.dumper,
                               Locals(req.offset_id, req.offset_date,
                                      req.limit, stop_at, chunks_left),
                               history)
             done == r.exit \in {"a", "b"}
             counted == start.top = top /\ (start.resume.id = 0 \/ ~appended)
         IN  /\ ed' = s2.ed
             /\ entbar' = entbar + (IF s2.popped THEN 1 ELSE 0) + 1
             /\ req' = [req EXCEPT !.offset_id = r.loc.offset_id,
                                   !.offset_date = r.loc.offset_date]
             /\ chunks_left' = r.loc.chunks_left
             /\ tx' = note_refs(r.store, ents, audit = "refs")
             /\ db' = note_refs(r.store, ents, audit = "refs")
             /\ pc' = IF r.exit = "continue" THEN "paging" ELSE "draining"
             /\ exitBy' = IF r.exit = "continue" THEN "none" ELSE r.exit
             /\ pages' = Append(pages,
                                PageRecord(req.offset_id, history,
                                           Len(history), <<r.store.resume>>,
                                           0))
             /\ completed' = IF done /\ counted /\ completed < 2
                             THEN completed + 1
                             ELSE completed
             /\ firstDone' = IF done /\ counted /\ completed = 0
                             THEN [msgs |-> r.store.msgs,
                                   resume |-> r.store.resume]
                             ELSE firstDone
    /\ UNCHANGED <<remoteVars, stop_at, appended, start, queueOp,
                   codec, mediaOp, audit>>

Page == \E ents \in PageEntities : PageIteration(ents) /\ UNCHANGED clock

\* Where an iteration of the paging loop can raise, and what it had done:
\*   "fetch"  client(req), line 326
\*   "extend" a Chat's profile photo inside extend_pending, line 334
\*   "pop"    the full-info request or the photo inside pop_pending, line 341
\*   "media"  download_media for row k of the page, line 347
\*   "photo"  download_profile_photo for row k, a service message, line 357
\* Rows before k were dumped; nothing is saved or committed.
PageRaises ==
    /\ pc = "paging"
    /\ \E ents \in PageEntities :
         LET history == GetHistory(top, req.offset_id, req.limit)
             s1 == extend_pending([ed |-> ed, dumper |-> tx], ents, 0)
         IN  \E kind \in {"fetch", "extend", "pop", "media", "photo"},
               k \in 0..Len(history) :
               /\ kind \in {"fetch", "extend", "pop"} => k = 0
               /\ kind \in {"media", "photo"} => k > 0
               /\ kind = "extend" => ExtendFailPoints(ents) # {0}
               /\ kind = "pop" => PopOutcomes(s1.ed) # {"ok"}
               /\ pages' = Append(pages,
                     PageRecord(req.offset_id,
                                IF kind = "fetch" THEN <<>> ELSE history,
                                IF k = 0 THEN 0 ELSE k - 1, <<>>,
                                IF kind = "media" THEN history[k] ELSE 0))
    /\ pc' = "idle"
    /\ tx' = db
    /\ ResetLocals
    /\ exitBy' = raised_exit(exitBy)
    /\ UNCHANGED <<remoteVars, db, appended, completed, firstDone, start,
                   queueOp, clock, codec, mediaOp, audit>>

\* DRAINING_ENTITIES, one iteration of lines 420-424: all but the clock.
DrainIteration ==
    /\ pc = "draining"
    /\ ed.pending # <<>>
    /\ LET r == pop_pending([ed |-> ed, dumper |-> tx], "ok")
       IN  /\ ed' = r.ed
           /\ entbar' = entbar + (IF r.popped THEN 1 ELSE 0)
           /\ tx' = r.dumper
           /\ db' = r.dumper
    /\ UNCHANGED <<remoteVars, pc, req, stop_at, chunks_left, ghostVars,
                   codec, mediaOp, audit>>

DrainStep == DrainIteration /\ UNCHANGED clock

\* The same iteration when the full-info request or the photo raises.
DrainRaises ==
    /\ pc = "draining"
    /\ PopOutcomes(ed) # {"ok"}
    /\ pc' = "idle"
    /\ tx' = db
    /\ ResetLocals
    /\ exitBy' = raised_exit(exitBy)
    /\ UNCHANGED <<remoteVars, db, appended, completed, firstDone, start,
                   pages, queueOp, clock, codec, mediaOp, audit>>

\* DONE, lines 426-427: the queue is empty and save_messages returns.
Finish ==
    /\ pc = "draining"
    /\ ed.pending = <<>>
    /\ pc' = "idle"
    /\ ResetLocals
    /\ UNCHANGED <<remoteVars, db, tx, ghostVars,
                   clock, codec, mediaOp, audit>>

\* The process is killed between two steps of a run.
Crash ==
    /\ pc \in {"paging", "draining"}
    /\ pc' = "idle"
    /\ tx' = db
    /\ ResetLocals
    /\ UNCHANGED <<remoteVars, db, appended, completed, firstDone, start,
                   pages, exitBy, queueOp,
                   clock, codec, mediaOp, audit>>

\* The conversation receives a new message.
RemoteAppend ==
    /\ pc \in {"idle", "paging", "draining"}
    /\ top < MaxTop
    /\ top' = top + 1
    /\ appended' = TRUE
    /\ completed' = 0
    /\ firstDone' = NoDone
    /\ UNCHANGED <<chunk_size, target, db, tx, pc, localVars, start, pages,
                   exitBy, queueOp,
                   clock, codec, mediaOp, audit>>

Next ==
    \/ StartRun
    \/ StartRunRaises
    \/ Page
    \/ PageRaises
    \/ DrainStep
    \/ DrainRaises
    \/ Finish
    \/ Crash
    \/ RemoteAppend

Spec == Init /\ [][Next]_vars

\* The same runs of save_messages on a private dialog, with the ids each
\* run fetched handed to the next run's record (start.prev).
InitResume ==
    /\ top \in 1..MaxTop
    /\ chunk_size \in 1..MaxLimit
    /\ target = User2
    /\ db = EmptyStore
    /\ tx = EmptyStore
    /\ pc = "idle"
    /\ req = NoReq
    /\ stop_at = 0
    /\ chunks_left = 0
    /\ ed = NewEntityDownloader
    /\ entbar = 0
    /\ appended = FALSE
    /\ completed = 0
    /\ firstDone = NoDone
    /\ start = NoStart
    /\ pages = <<>>
    /\ exitBy = "none"
    /\ queueOp = NoOp
    /\ clock = NoClock
    /\ codec = NoCodec
    /\ mediaOp = NoMediaOp
    /\ audit = "prev"

SpecResume == InitResume /\ [][Next]_vars

\* The same again, with the entities each persisted page refers to kept in
\* the store (refs).
InitRefs ==
    /\ top \in 1..MaxTop
    /\ chunk_size \in 1..MaxLimit
    /\ target = User2
    /\ db = EmptyStore
    /\ tx = EmptyStore
    /\ pc = "idle"
    /\ req = NoReq
    /\ stop_at = 0
    /\ chunks_left = 0
    /\ ed = NewEntityDownloader
    /\ entbar = 0
    /\ appended = FALSE
    /\ completed = 0
    /\ firstDone = NoDone
    /\ start = NoStart
    /\ pages = <<>>
    /\ exitBy = "none"
    /\ queueOp = NoOp
    /\ clock = NoClock
    /\ codec = NoCodec
    /\ mediaOp = NoMediaOp
    /\ audit = "refs"

SpecRefs == InitRefs /\ [][Next]_vars

\* ------------------------------------------------- the entity queue alone
\* An _EntityDownloader driven by any sequence of extend_pending and
\* pop_pending calls, as its callers may make them. An exception leaves the
\* object as the raising call left it.
QueueEntities ==
    {User1, User2, UserDel, UserMin, Chat1, Channel1, ChannelLeft, Forbidden1}

OfferLists ==
    {<<>>} \cup {<<e>> : e \in QueueEntities}
           \cup {<<User1, Channel1>>, <<Chat1, User1>>, <<User2, User2>>,
                 <<ChannelLeft, Chat1>>}

InitQueue ==
    /\ top = 1
    /\ chunk_size = 1
    /\ target = User2
    /\ db = EmptyStore
    /\ tx = EmptyStore
    /\ pc = "queue"
    /\ req = NoReq
    /\ stop_at = 0
    /\ chunks_left = 0
    /\ ed = NewEntityDownloader
    /\ entbar = 0
    /\ appended = FALSE
    /\ completed = 0
    /\ firstDone = NoDone
    /\ start = NoStart
    /\ pages = <<>>
    /\ exitBy = "none"
    /\ queueOp = NoOp
    /\ clock = NoClock
    /\ codec = NoCodec
    /\ mediaOp = NoMediaOp
    /\ audit = "off"

\* Offer: extend_pending(entities).
Offer ==
    /\ pc = "queue"
    /\ \E entities \in OfferLists :
         \E failAt \in ExtendFailPoints(entities) :
           LET r == extend_pending([ed |-> ed, dumper |-> tx], entities,
                                   failAt)
           IN  /\ ed' = r.ed
               /\ tx' = r.dumper
               /\ queueOp' = [op |-> "offer", entities |-> entities,
                              raised |-> r.raised,
                              dumped |-> dump_calls(entities, failAt)]
    /\ UNCHANGED <<remoteVars, db, pc, req, stop_at, chunks_left, entbar,
                   appended, completed, firstDone, start, pages, exitBy,
                   clock, codec, mediaOp, audit>>

\* PopOne: pop_pending(pbar).
PopOne ==
    /\ pc = "queue"
    /\ \E outcome \in PopOutcomes(ed) :
         LET r == pop_pending([ed |-> ed, dumper |-> tx], outcome)
         IN  /\ ed' = r.ed
             /\ tx' = r.dumper
             /\ entbar' = entbar + (IF r.popped THEN 1 ELSE 0)
             /\ queueOp' = [op |-> "pop", empty |-> (ed.pending = <<>>),
                            raised |-> r.raised, sleep |-> r.sleep]
    /\ UNCHANGED <<remoteVars, db, pc, req, stop_at, chunks_left, appended,
                   completed, firstDone, start, pages, exitBy,
                   clock, codec, mediaOp, audit>>

NextQueue ==
    \/ Offer
    \/ PopOne

SpecQueue == InitQueue /\ [][NextQueue]_vars

\* The peer ids of the entities in the _pending deque.
PendingPeerIds(q) == {get_peer_id(q.pending[i]) : i \in 1..Len(q.pending)}

\* C8: after any sequence of Offer and PopOne, no peer id is both pending
\* (in the deque or in _pending_ids) and dumped, and a dumped peer id stays
\* dumped and out of the pending deque and set ever after.
C8_Disjoint(q) ==
    \A eid \in q.dumped_ids :
        eid \notin q.pending_ids /\ eid \notin PendingPeerIds(q)

C8_PendingDumpedDisjoint ==
    /\ C8_Disjoint(ed)
    /\ [][\A eid \in ed.dumped_ids :
            /\ eid \in ed'.dumped_ids
            /\ eid \notin ed'.pending_ids
            /\ eid \notin PendingPeerIds(ed')]_vars

\* C8 witness: an entity that needs a full-info fetch is offered again when
\* it is already dumped, while another entity is pending.
C8_Witness ==
    /\ queueOp.op = "offer"
    /\ ed.pending # <<>>
    /\ \E i \in 1..Len(queueOp.entities) :
         /\ queueOp.entities[i].type \in {"User", "Channel"}
         /\ get_peer_id(queueOp.entities[i]) \in ed.dumped_ids

\* C9: at every point TotalSeen() = Size() + DumpedCount(), whether or not
\* the full-info fetch of a PopOne succeeds.
C9_TotalSeen ==
    total_count(ed) = queue_len(ed) + dumped_count(ed)

\* ------------------------------------------------ properties of the paging
LastPage == pages[Len(pages)]
PageMin(p) == Min(Range(p.ids))

\* One run of the paging loop from a store and locals to its end, with an
\* unchanged remote history and nothing raising.
RECURSIVE RunPaging(_, _, _)
RunPaging(store, loc, n) ==
    LET r == paging_step(store, loc, GetHistory(n, loc.offset_id, loc.limit))
    IN  IF r.exit = "continue" THEN RunPaging(r.store, r.loc, n) ELSE r

UninterruptedRun(n, limit) ==
    RunPaging(EmptyStore, Locals(0, 0, limit, 0, 0), n).store

\* C1: over an unchanged history and from a fresh cursor, the first paging
\* loop that ends by (a) or (b), after any number of crashes, exceptions and
\* budget stops, has committed the messages and the cursor that one
\* uninterrupted run commits; and a run resumed at a saved offset fetches no
\* id at or above it.
C1_ResumeEquivalence ==
    /\ (completed = 1 /\ ~appended /\ exitBy \in {"a", "b"}) =>
           LET u == UninterruptedRun(top, chunk_size)
           IN  db.msgs = u.msgs /\ db.resume = u.resume
    /\ start.resume.id # 0 =>
           \A i \in 1..Len(pages) :
               \A id \in Range(pages[i].ids) : id < start.resume.id

\* C1 witness: the completing run was resumed at a saved offset and fetched
\* at least two pages.
C1_Witness ==
    /\ completed = 1 /\ ~appended /\ exitBy \in {"a", "b"}
    /\ start.resume.id # 0
    /\ Len(pages) >= 2

\* C2: whenever a paging loop has ended by (a) or (b), the committed stop_at
\* is the highest persisted id and every remote id up to it is persisted.
C2_NoGapBelowStopAt ==
    exitBy \in {"a", "b"} =>
        /\ db.resume.stop_at = get_message_id_max(db)
        /\ \A id \in 1..top : id <= db.resume.stop_at => id \in db.msgs

\* C2 witness: a resumed run ends by (b) after the history grew, with newer
\* messages left above the new stop_at.
C2_Witness ==
    /\ exitBy = "b"
    /\ appended
    /\ start.resume.id # 0
    /\ start.resume.stop_at > 0
    /\ db.resume.stop_at < top

\* C3: among the cursors saved by the successive pages of one run,
\* offset id never grows and stop_at never shrinks.
C3_MonotonicCursor ==
    \A i \in 1..(Len(pages) - 1) :
        (pages[i].saved # <<>> /\ pages[i + 1].saved # <<>>) =>
            /\ pages[i + 1].saved[1].id <= pages[i].saved[1].id
            /\ pages[i + 1].saved[1].stop_at >= pages[i].saved[1].stop_at

\* C3 witness: a run with a carried-over stop_at saved three cursors, the
\* last one on termination.
C3_Witness ==
    /\ Len(pages) >= 3
    /\ exitBy \in {"a", "b"}
    /\ start.resume.stop_at > 0
    /\ LastPage.saved # <<>>

\* C4 as claimed: in a run with a carried-over stop_at S > 0 no message with
\* id <= S is dumped again.
C4_NoRedump ==
    start.resume.stop_at > 0 =>
        \A i \in 1..Len(pages) :
            \A id \in pages[i].dumped : id > start.resume.stop_at

\* C4 as amended: messages with id <= S are dumped again only by the page
\* at which paging stops, so by one page and at most chunk_size of them.
C4_RedumpOnlyLastPage ==
    start.resume.stop_at > 0 =>
        /\ \A i \in 1..(Len(pages) - 1) :
               \A id \in pages[i].dumped : id > start.resume.stop_at
        /\ (pages # <<>> /\ pc = "paging") =>
               \A id \in LastPage.dumped : id > start.resume.stop_at
        /\ pages # <<>> =>
               Cardinality({id \in LastPage.dumped :
                               id <= start.resume.stop_at}) <= chunk_size

\* C4 witness: the last page of a run dumped again a message at or below the
\* carried-over stop_at and paging stopped there.
C4_Witness ==
    /\ start.resume.stop_at > 0
    /\ exitBy = "b"
    /\ Len(pages) >= 2
    /\ \E id \in LastPage.dumped : id <= start.resume.stop_at

\* C5: in a run with a carried-over stop_at S > 0, paging goes on only while
\* the page's minimum id is above S; after a page whose minimum is S + 1 at
\* most one more page is fetched; and leaving by (a) or (b) commits the
\* highest persisted id as the new stop_at.
C5_StopsAtBoundary ==
    start.resume.stop_at > 0 =>
        /\ (pc = "paging" /\ pages # <<>> /\ LastPage.ids # <<>>) =>
               PageMin(LastPage) > start.resume.stop_at
        /\ \A i \in 1..Len(pages) :
               (pages[i].ids # <<>>
                  /\ PageMin(pages[i]) = start.resume.stop_at + 1) =>
                   Len(pages) <= i + 1
        /\ exitBy \in {"a", "b"} =>
               db.resume.stop_at = get_message_id_max(db)

\* C5 witness: a fresh pass with S > 0 fetched a page ending exactly at
\* S + 1, then one more page, and left PAGING.
C5_Witness ==
    /\ start.resume.stop_at > 0
    /\ start.resume.id = 0
    /\ Len(pages) >= 2
    /\ pages[Len(pages) - 1].ids # <<>>
    /\ PageMin(pages[Len(pages) - 1]) = start.resume.stop_at + 1
    /\ LastPage.ids # <<>>
    /\ exitBy \in {"a", "b"}

\* C6: from a fresh cursor, with an unlimited budget and the history 1..N
\* unchanged during the run, the paging loop ends by (a) after
\* floor(N / L) + 1 pages, all full but the last of N mod L rows, with the
\* N messages persisted and stop_at = N.
C6_FreshRunPages ==
    (/\ start.resume = NoResume
     /\ start.count = 0
     /\ start.max_chunks = 0
     /\ start.top = top
     /\ exitBy # "none") =>
        /\ exitBy = "a"
        /\ Len(pages) = (top \div chunk_size) + 1
        /\ \A i \in 1..(Len(pages) - 1) : Len(pages[i].ids) = chunk_size
        /\ Len(LastPage.ids) = top % chunk_size
        /\ db.msgs = 1..top
        /\ Cardinality(db.msgs) = top
        /\ db.resume.stop_at = top

\* C6 witness: such a run ended after a full page and a partial one.
C6_Witness ==
    /\ start.resume = NoResume
    /\ start.count = 0
    /\ start.max_chunks = 0
    /\ start.top = top
    /\ exitBy = "a"
    /\ chunk_size >= 2
    /\ Len(pages) >= 2
    /\ LastPage.ids # <<>>

C10_MediaFailureKeepsMessage ==
    \A i \in 1..Len(pages) :
        pages[i].failed # 0 =>
            /\ pages[i].failed \in pages[i].dumped
            /\ Range(pages[i].ids) \subseteq pages[i].dumped
            /\ pages[i].saved # <<>>

\* C11: an Offer of entities that the filter drops (a left channel, a deleted
\* or min user, an empty or forbidden entity) changes neither the deque nor
\* _pending_ids nor _dumped_ids, so total_count does not grow; it writes
\* nothing to the dumper and cannot raise, there being no remote call in it.
\* In a list that mixes them with others, a dropped entity's peer id enters
\* none of the three collections and no dumper row.
C11_Excluded(e) ==
    \/ e.type = "Channel" /\ e.left
    \/ e.type = "User" /\ (e.deleted \/ e.min)
    \/ e.type = "Forbidden"

C11_DroppedOfferNoEffect ==
    [][(queueOp'.op = "offer" /\ pc = "queue") =>
          LET es == queueOp'.entities
              dropped == {i \in 1..Len(es) : C11_Excluded(es[i])}
          IN  /\ (dropped = 1..Len(es)) =>
                     /\ ed' = ed
                     /\ total_count(ed') = total_count(ed)
                     /\ tx' = tx
                     /\ ~queueOp'.raised
              /\ \A i \in dropped :
                     LET eid == get_peer_id(es[i])
                     IN  /\ eid \in ed'.pending_ids => eid \in ed.pending_ids
                         /\ eid \in ed'.dumped_ids => eid \in ed.dumped_ids
                         /\ eid \in PendingPeerIds(ed') =>
                                eid \in PendingPeerIds(ed)
                         /\ eid \in tx'.entities => eid \in tx.entities]_vars

\* C11 witness: a left channel was offered, alone, to a queue that holds a
\* pending and a dumped entity.
C11_Witness ==
    /\ queueOp.op = "offer"
    /\ queueOp.entities = <<ChannelLeft>>
    /\ ed.pending # <<>>
    /\ ed.dumped_ids # {}

\* C12: at every point of a save_messages run entbar.n is the number of
\* entities the run has dumped so far.
C12_EntbarIsDumpedCount ==
    pc \in {"paging", "draining"} => entbar = dumped_count(ed)

\* ------------------------------------------------ utils: message entities
\* Python values: None, a list, a str (a sequence of one-character strings).
PyNone == [tag |-> "None"]
PyList(v) == [tag |-> "list", v |-> v]
PyStr(v) == [tag |-> "str", v |-> v]

\* ENTITY_TO_TEXT: the six classes and their names.
ENTITY_TO_TEXT ==
    [pre         |-> <<"p", "r", "e">>,
     code        |-> <<"c", "o", "d", "e">>,
     bold        |-> <<"b", "o", "l", "d">>,
     italic      |-> <<"i", "t", "a", "l", "i", "c">>,
     texturl     |-> <<"t", "e", "x", "t", "u", "r", "l">>,
     mentionname |-> <<"m", "e", "n", "t", "i", "o", "n", "n", "a", "m", "e">>]

Kinds == DOMAIN ENTITY_TO_TEXT

\* A MessageEntity: its class, offset, length, and the url of a
\* MessageEntityTextUrl or the user_id of a MessageEntityMentionName.
NoExtra == [tag |-> "none", url |-> <<>>, user_id |-> 0]
UrlOf(url) == [tag |-> "url", url |-> url, user_id |-> 0]
UserIdOf(id) == [tag |-> "user_id", url |-> <<>>, user_id |-> id]
MsgEntity(kind, offset, length, extra) ==
    [kind |-> kind, offset |-> offset, length |-> length, extra |-> extra]

\* '{}'.format(n) for an int n >= 0, and int(s) for a string of digits.
Digits == <<"0", "1", "2", "3", "4", "5", "6", "7", "8", "9">>

RECURSIVE format_int(_)
format_int(n) ==
    IF n < 10 THEN <<Digits[n + 1]>>
    ELSE Append(format_int(n \div 10), Digits[(n % 10) + 1])

DigitValue(c) == CHOOSE d \in 0..9 : Digits[d + 1] = c

RECURSIVE parse_int_from(_, _)
parse_int_from(str, acc) ==
    IF str = <<>> THEN acc
    ELSE parse_int_from(Tail(str), 10 * acc + DigitValue(Head(str)))

parse_int(str) == parse_int_from(str, 0)

\* str.replace(old, new) for a one-character old.
RECURSIVE str_replace(_, _, _)
str_replace(str, old, new) ==
    IF str = <<>> THEN <<>>
    ELSE (IF Head(str) = old THEN new ELSE <<Head(str)>>)
         \o str_replace(Tail(str), old, new)

\* sep.join(parts)
RECURSIVE str_join(_, _)
str_join(parts, sep) ==
    IF parts = <<>> THEN <<>>
    ELSE IF Len(parts) = 1 THEN parts[1]
    ELSE parts[1] \o <<sep>> \o str_join(Tail(parts), sep)

\* str.split(sep): the pieces between the separators, empty ones kept.
RECURSIVE str_split_from(_, _, _)
str_split_from(str, sep, cur) ==
    IF str = <<>> THEN <<cur>>
    ELSE IF Head(str) = sep
    THEN <<cur>> \o str_split_from(Tail(str), sep, <<>>)
    ELSE str_split_from(Tail(str), sep, Append(cur, Head(str)))

str_split(str, sep) == str_split_from(str, sep, <<>>)

\* Lines 27-38: one entity as 'kind,offset,length' and its extra field.
encode_url(url) ==
    str_replace(str_replace(url, ",", <<"%", "2", "c">>),
                ";", <<"%", "3", "b">>)

encode_entity(e) ==
    LET extra == CASE e.kind = "texturl" ->
                          <<",">> \o encode_url(e.extra.url)
                   [] e.kind = "mentionname" ->
                          <<",">> \o format_int(e.extra.user_id)
                   [] OTHER                  -> <<>>
    IN  ENTITY_TO_TEXT[e.kind] \o <<",">> \o format_int(e.offset)
        \o <<",">> \o format_int(e.length) \o extra

RECURSIVE encode_each(_)
encode_each(entities) ==
    IF entities = <<>> THEN <<>>
    ELSE (IF Head(entities).kind \in Kinds
          THEN <<encode_entity(Head(entities))>> ELSE <<>>)
         \o encode_each(Tail(entities))

\* encode_msg_entities(entities)
encode_msg_entities(entities) ==
    IF entities = PyNone \/ entities.v = <<>> THEN PyNone
    ELSE PyStr(str_join(encode_each(entities.v), ";"))

\* Lines 50-62: one part of the string back to an entity.
TextKinds(text) == {k \in Kinds : ENTITY_TO_TEXT[k] = text}

decode_url(split) == split[Len(split)]

decode_part(part) ==
    LET split  == str_split(part, ",")
        offset == parse_int(split[2])
        length == parse_int(split[3])
        kinds  == TextKinds(split[1])
    IN  IF kinds = {} THEN <<>>
        ELSE LET kind == CHOOSE k \in kinds : TRUE
             IN  CASE kind = "texturl" ->
                        <<MsgEntity(kind, offset, length,
                                    UrlOf(decode_url(split)))>>
                   [] kind = "mentionname" ->
                        <<MsgEntity(kind, offset, length,
                                    UserIdOf(parse_int(split[Len(split)])))>>
                   [] OTHER ->
                        <<MsgEntity(kind, offset, length, NoExtra)>>

RECURSIVE decode_each(_)
decode_each(parts) ==
    IF parts = <<>> THEN <<>>
    ELSE decode_part(Head(parts)) \o decode_each(Tail(parts))

\* decode_msg_entities(string)
decode_msg_entities(string) ==
    IF string = PyNone \/ string.v = <<>> THEN PyNone
    ELSE PyList(decode_each(str_split(string.v, ";")))

\* ------------------------------------------------- the codec on its inputs
\* The entity lists encode_msg_entities is given: None, and every list of at
\* most MaxEntities entities of the six classes.
Offsets == {0, 12}
Lengths == {5}
UserIds == {7, 340}
Urls == {<<>>, <<"a">>, <<"a", ",", "b">>, <<";">>, <<"%", "2", "c">>}

CodecEntities ==
    {MsgEntity(k, o, l, NoExtra) :
        k \in {"pre", "code", "bold", "italic"}, o \in Offsets, l \in Lengths}
    \cup {MsgEntity("texturl", o, l, UrlOf(u)) :
             o \in Offsets, l \in Lengths, u \in Urls}
    \cup {MsgEntity("mentionname", o, l, UserIdOf(id)) :
             o \in Offsets, l \in Lengths, id \in UserIds}

CodecInputs ==
    {PyNone}
    \cup {PyList(v) :
             v \in UNION {[1..n -> CodecEntities] : n \in 0..MaxEntities}}

InitCodec ==
    /\ top = 1
    /\ chunk_size = 1
    /\ target = User2
    /\ db = EmptyStore
    /\ tx = EmptyStore
    /\ pc = "codec"
    /\ req = NoReq
    /\ stop_at = 0
    /\ chunks_left = 0
    /\ ed = NewEntityDownloader
    /\ entbar = 0
    /\ appended = FALSE
    /\ completed = 0
    /\ firstDone = NoDone
    /\ start = NoStart
    /\ pages = <<>>
    /\ exitBy = "none"
    /\ queueOp = NoOp
    /\ clock = NoClock
    /\ mediaOp = NoMediaOp
    /\ audit = "off"
    /\ \E input \in CodecInputs :
         codec = [stage |-> "input", input |-> input, encoded |-> PyNone,
                  decoded |-> PyNone]

codecFrame ==
    <<top, chunk_size, target, db, tx, pc, req, stop_at, chunks_left, ed,
      entbar, appended, completed, firstDone, start, pages, exitBy, queueOp,
      clock, mediaOp, audit>>

\* The dumper stores encode_msg_entities(message.entities) ...
Encode ==
    /\ pc = "codec"
    /\ codec.stage = "input"
    /\ codec' = [codec EXCEPT !.stage = "encoded",
                              !.encoded = encode_msg_entities(codec.input)]
    /\ UNCHANGED codecFrame

\* ... and a reader of the database gets them back with decode_msg_entities.
Decode ==
    /\ pc = "codec"
    /\ codec.stage = "encoded"
    /\ codec' = [codec EXCEPT !.stage = "decoded",
                              !.decoded = decode_msg_entities(codec.encoded)]
    /\ UNCHANGED codecFrame

NextCodec ==
    \/ Encode
    \/ Decode

SpecCodec == InitCodec /\ [][NextCodec]_vars

\* C13: decode_msg_entities(encode_msg_entities(list)) is the list again,
\* kinds, offsets, lengths, urls and user ids in order, for every non-empty
\* list of entities of the six classes; None and the empty list give None
\* both ways.
C13_DecodeReversesEncode ==
    codec.stage = "decoded" =>
        IF codec.input = PyNone \/ codec.input.v = <<>>
        THEN codec.encoded = PyNone /\ codec.decoded = PyNone
        ELSE codec.decoded = codec.input

\* C14: after a page the three ends of paging are tried in the order (a)
\* short page, (b) new offset id <= the carried-over stop_at, (c) budget
\* used up. Leaving by (a) or (b) commits the cursor (0, 0, highest
\* persisted id), also when the page is the last one the budget allows;
\* leaving by (c) alone commits (min id, min date of the page, stop_at
\* unchanged); with max_chunks = 0 paging never leaves by (c).
C14_TerminationOrder ==
    (exitBy # "none" /\ pages # <<>>) =>
        LET p      == LastPage
            short  == Len(p.ids) < chunk_size
            newoff == IF p.ids = <<>> THEN p.offset ELSE PageMin(p)
            caught == newoff <= start.resume.stop_at
            budget == start.max_chunks > 0 /\ Len(pages) = start.max_chunks
        IN  /\ exitBy = "a" <=> short
            /\ exitBy = "b" <=> (~short /\ caught)
            /\ exitBy = "c" <=> (~short /\ ~caught /\ budget)
            /\ exitBy \in {"a", "b"} =>
                   db.resume = [id |-> 0, date |-> 0,
                                stop_at |-> get_message_id_max(db)]
            /\ exitBy = "c" =>
                   db.resume = [id |-> PageMin(p), date |-> DateOf(PageMin(p)),
                                stop_at |-> start.resume.stop_at]
            /\ start.max_chunks = 0 => exitBy # "c"

\* C14 witness: paging left by (b) on the very page that used up a budget
\* of two pages.
C14_Witness ==
    /\ exitBy = "b"
    /\ start.max_chunks = 2
    /\ Len(pages) = 2
    /\ pc = "draining"

\* C15: the cursor is saved after every page, in the commit that holds the
\* page's messages; a run starts at the committed cursor; a page whose
\* iteration was cut short (a crash or an exception before its commit) left
\* the committed cursor at the offset it was fetched with, so the next run
\* fetches it again; and a run fetches again at most one page's worth of the
\* message ids the run before it had fetched.
C15_CrashResume ==
    /\ \A i \in 1..Len(pages) :
           /\ i < Len(pages) => pages[i].saved # <<>>
           /\ pages[i].saved # <<>> => Range(pages[i].ids) \subseteq db.msgs
    /\ (pages # <<>> /\ LastPage.saved # <<>>) =>
           db.resume = LastPage.saved[1]
    /\ (pages # <<>> /\ LastPage.saved = <<>>) =>
           /\ db.resume.id = LastPage.offset
           /\ db.resume = IF Len(pages) = 1 THEN start.resume
                          ELSE pages[Len(pages) - 1].saved[1]
    /\ (pc = "paging" /\ pages = <<>>) =>
           /\ start.resume = db.resume
           /\ req.offset_id = db.resume.id
           /\ stop_at = db.resume.stop_at
    /\ Cardinality(FetchedIds(pages) \cap start.prev) <= chunk_size

\* C15 witness: a run resumed at a saved offset has fetched again, and now
\* committed, a page the run before it had fetched and lost.
C15_Witness ==
    /\ start.resume.id # 0
    /\ pages # <<>>
    /\ pages[1].ids # <<>>
    /\ Range(pages[1].ids) \subseteq start.prev
    /\ pages[1].saved # <<>>
    /\ start.count < Cardinality(db.msgs)

\* C16: when a run reaches DONE (the drain loop finds the queue empty), every
\* entity that a persisted page refers to and that extend_pending does not
\* drop has its row in the database, pages persisted by earlier, interrupted
\* runs included.
C16_AllReferencedDumped ==
    (pc = "draining" /\ ed.pending = <<>>) =>
        /\ tx = db
        /\ db.refs \subseteq db.entities

\* ----------------------------------------------------- the runs with a clock
\* Time in whole seconds. clock.hist, clock.full and clock.media are the
\* seconds gone since the last GetHistoryRequest, the last GetFullUserRequest
\* or GetFullChannelRequest and the last download_media of the run started
\* (-1: none yet; counted up to Interval, which stands for "Interval or
\* more"); clock.early holds the kinds of which a request started less than
\* Interval after the one before it.
Interval == 1

advance(c, d) ==
    [c EXCEPT !.hist  = IF @ < 0 THEN @ ELSE Min({@ + d, Interval}),
              !.full  = IF @ < 0 THEN @ ELSE Min({@ + d, Interval}),
              !.media = IF @ < 0 THEN @ ELSE Min({@ + d, Interval})]

request(c, kind) ==
    [c EXCEPT ![kind] = 0,
              !.early = IF c[kind] >= 0 /\ c[kind] < Interval
                        THEN @ \cup {kind} ELSE @]

\* time.sleep(max(wanted - (time.time() - start), 0)), lines 410 and 424.
sleep_rest(c, wanted, elapsed) ==
    advance(c, Max({wanted - elapsed, 0}))

\* Lines 344-347: n rows of the page carry media that check_media accepts;
\* each download_media takes d seconds.
RECURSIVE media_downloads(_, _, _)
media_downloads(c, n, d) ==
    IF n = 0 THEN c
    ELSE media_downloads(advance(request(c, "media"), d), n - 1, d)

\* The clock over one iteration of the paging loop, lines 325-410: the
\* history request, the full-info request of pop_pending when the queue is
\* not empty, the media downloads, and the sleep of line 410, which the
\* three `break`s skip.
page_clock(c, fetch, popped, pop, n, d, continues) ==
    LET c1 == advance(request(c, "hist"), fetch)
        c2 == IF popped THEN advance(request(c1, "full"), pop) ELSE c1
        c3 == media_downloads(c2, n, d)
        elapsed == fetch + (IF popped THEN pop ELSE 0) + n * d
    IN  IF continues THEN sleep_rest(c3, Interval, elapsed) ELSE c3

\* The clock over one iteration of the drain loop, lines 421-424.
drain_clock(c, pop, needed_sleep) ==
    sleep_rest(advance(request(c, "full"), pop), needed_sleep, pop)

InitTimed ==
    /\ top \in 1..MaxTop
    /\ chunk_size \in 1..MaxLimit
    /\ target = User2
    /\ db = EmptyStore
    /\ tx = EmptyStore
    /\ pc = "idle"
    /\ req = NoReq
    /\ stop_at = 0
    /\ chunks_left = 0
    /\ ed = NewEntityDownloader
    /\ entbar = 0
    /\ appended = FALSE
    /\ completed = 0
    /\ firstDone = NoDone
    /\ start = NoStart
    /\ pages = <<>>
    /\ exitBy = "none"
    /\ queueOp = NoOp
    /\ clock = NoClock
    /\ codec = NoCodec
    /\ mediaOp = NoMediaOp
    /\ audit = "off"

TimedStartRun == RunStart /\ clock' = NoClock

TimedPage ==
    \E ents \in PageEntities, fetch \in 0..MaxWork, pop \in 0..MaxWork,
       d \in 0..MaxWork :
       \E n \in 0..Len(GetHistory(top, req.offset_id, req.limit)) :
          /\ PageIteration(ents)
          /\ clock' = page_clock(
                 clock, fetch,
                 extend_pending([ed |-> ed, dumper |-> tx], ents, 0)
                     .ed.pending # <<>>,
                 pop, n, d, pc' = "paging")

TimedDrainStep ==
    \E pop \in 0..MaxWork :
       /\ DrainIteration
       /\ clock' = drain_clock(
              clock, pop, pop_pending([ed |-> ed, dumper |-> tx], "ok").sleep)

NextTimed ==
    \/ TimedStartRun
    \/ TimedPage
    \/ TimedDrainStep
    \/ Finish

SpecTimed == InitTimed /\ [][NextTimed]_vars

\* C17: within a run, two GetHistoryRequests in a row start at least Interval
\* apart, and so do two full-info requests in a row, the last one of the
\* paging loop and the first one of the drain loop included.
C17_RequestsSpaced ==
    /\ "hist" \notin clock.early
    /\ "full" \notin clock.early

\* C18: within a run, two download_media calls in a row start at least
\* Interval apart, two downloads for rows of one page included.
C18_MediaSpaced ==
    "media" \notin clock.early

\* ------------------------------------------------------------ save_admin_log
\* The admin log of the channel holds the event ids 1..top (top may be 0).
\* GetAdminLogRequest(max_id, limit) with q = '', min_id = 0: the `limit`
\* newest events below max_id (the newest of all when max_id is 0), newest
\* first. req.offset_id holds req.max_id here.
GetAdminLog(n, max_id, limit) == GetHistory(n, max_id, limit)

\* Lines 464-481: every event of the page is dumped, in page order.
RECURSIVE dump_events(_, _, _)
dump_events(store, events, upto) ==
    IF upto = 0 THEN store
    ELSE dump_admin_log_event(dump_events(store, events, upto - 1),
                              events[upto])

\* What a page's users + chats may hold (result.users, result.chats).
AdminPageEntities == PageEntities \cup {<<User1, User2>>}

\* Lines 485-486: the budget test of save_admin_log.
AdminBudgetExhausted(chunks) == chunks <= 0

InitAdminLog ==
    /\ top \in 0..MaxTop
    /\ chunk_size = 1
    /\ target = Channel1
    /\ db = EmptyStore
    /\ tx = EmptyStore
    /\ pc = "idle"
    /\ req = NoReq
    /\ stop_at = 0
    /\ chunks_left = 0
    /\ ed = NewEntityDownloader
    /\ entbar = 0
    /\ appended = FALSE
    /\ completed = 0
    /\ firstDone = NoDone
    /\ start = NoStart
    /\ pages = <<>>
    /\ exitBy = "none"
    /\ queueOp = NoOp
    /\ clock = NoClock
    /\ codec = NoCodec
    /\ mediaOp = NoMediaOp
    /\ audit = "off"

adminFrame ==
    <<remoteVars, stop_at, appended, completed, firstDone, queueOp, clock,
      codec, mediaOp, audit>>

\* Lines 434-452, when nothing in them raises.
AdminStart ==
    /\ pc = "idle"
    /\ \E max_chunks \in 0..MaxChunks :
         /\ chunks_left' = max_chunks
         /\ start' = [NoStart EXCEPT !.max_chunks = max_chunks, !.top = top]
    /\ req' = [offset_id |-> 0, offset_date |-> 0, limit |-> AdminLimit]
    /\ ed' = NewEntityDownloader
    /\ entbar' = 0
    /\ pc' = "admin_paging"
    /\ pages' = <<>>
    /\ exitBy' = "none"
    /\ UNCHANGED <<db, tx, adminFrame>>

\* Lines 434-452 raising: get_input_entity, get_entity, or the construction
\* of the progress bar at line 452.
AdminStartRaises ==
    /\ pc = "idle"
    /\ tx' = db
    /\ pages' = <<>>
    /\ exitBy' = "none"
    /\ start' = NoStart
    /\ UNCHANGED <<db, pc, localVars, adminFrame>>

\* One iteration of the loop of lines 453-487, when nothing raises: the page
\* is fetched, its entities are offered, one entity is popped; an empty page
\* ends the loop ("empty"); else its events are dumped, max_id moves to the
\* page's minimum and the budget is counted down ("budget" when used up).
\* Nothing is committed.
AdminPage ==
    /\ pc = "admin_paging"
    /\ \E ents \in AdminPageEntities :
         LET events == GetAdminLog(top, req.offset_id, req.limit)
             s1 == extend_pending([ed |-> ed, dumper |-> tx], ents, 0)
             s2 == pop_pending(s1, "ok")
             popped == IF s2.popped THEN 1 ELSE 0
             left == chunks_left - 1
         IN  /\ ed' = s2.ed
             /\ pages' = Append(pages,
                                PageRecord(req.offset_id, events,
                                           Len(events), <<>>, 0))
             /\ IF events = <<>>
                THEN /\ tx' = s2.dumper
                     /\ entbar' = entbar + popped
                     /\ pc' = "admin_draining"
                     /\ exitBy' = "empty"
                     /\ UNCHANGED <<req, chunks_left>>
                ELSE /\ tx' = dump_events(s2.dumper, events, Len(events))
                     /\ entbar' = entbar + popped + Len(events)
                     /\ req' = [req EXCEPT !.offset_id = Min(Range(events))]
                     /\ chunks_left' = left
                     /\ pc' = IF AdminBudgetExhausted(left)
                              THEN "admin_draining" ELSE "admin_paging"
                     /\ exitBy' = IF AdminBudgetExhausted(left)
                                  THEN "budget" ELSE "none"
    /\ UNCHANGED <<db, start, adminFrame>>

\* The same iteration raising: the request, a Chat's photo in
\* extend_pending, the full-info request or photo of pop_pending, or the
\* photo of a ChangePhoto event.
AdminPageRaises ==
    /\ pc = "admin_paging"
    /\ \E ents \in AdminPageEntities :
         LET events == GetAdminLog(top, req.offset_id, req.limit)
             s1 == extend_pending([ed |-> ed, dumper |-> tx], ents, 0)
         IN  \E kind \in {"fetch", "extend", "pop", "photo"},
               k \in 0..Len(events) :
               /\ kind \in {"fetch", "extend", "pop"} => k = 0
               /\ kind = "photo" => k > 0
               /\ kind = "extend" => ExtendFailPoints(ents) # {0}
               /\ kind = "pop" => PopOutcomes(s1.ed) # {"ok"}
               /\ pages' = Append(pages,
                     PageRecord(req.offset_id,
                                IF kind = "fetch" THEN <<>> ELSE events,
                                IF k = 0 THEN 0 ELSE k - 1, <<>>, 0))
    /\ pc' = "idle"
    /\ tx' = db
    /\ ResetLocals
    /\ UNCHANGED <<db, start, exitBy, adminFrame>>

\* One iteration of the drain loop, lines 489-493: pop, then commit.
AdminDrainStep ==
    /\ pc = "admin_draining"
    /\ ed.pending # <<>>
    /\ LET r == pop_pending([ed |-> ed, dumper |-> tx], "ok")
       IN  /\ ed' = r.ed
           /\ entbar' = entbar + (IF r.popped THEN 1 ELSE 0)
           /\ tx' = r.dumper
           /\ db' = commit(r.dumper)
    /\ UNCHANGED <<pc, req, chunks_left, start, pages, exitBy, adminFrame>>

AdminDrainRaises ==
    /\ pc = "admin_draining"
    /\ PopOutcomes(ed) # {"ok"}
    /\ pc' = "idle"
    /\ tx' = db
    /\ ResetLocals
    /\ UNCHANGED <<db, start, pages, exitBy, adminFrame>>

\* Lines 495-496: the queue is empty and save_admin_log returns; what it
\* wrote and did not commit stays in the open transaction.
AdminFinish ==
    /\ pc = "admin_draining"
    /\ ed.pending = <<>>
    /\ pc' = "idle"
    /\ ResetLocals
    /\ UNCHANGED <<db, tx, start, pages, exitBy, adminFrame>>

\* The process is killed between two steps of a run.
AdminCrash ==
    /\ pc \in {"admin_paging", "admin_draining"}
    /\ pc' = "idle"
    /\ tx' = db
    /\ ResetLocals
    /\ UNCHANGED <<db, start, pages, exitBy, adminFrame>>

NextAdminLog ==
    \/ AdminStart
    \/ AdminStartRaises
    \/ AdminPage
    \/ AdminPageRaises
    \/ AdminDrainStep
    \/ AdminDrainRaises
    \/ AdminFinish
    \/ AdminCrash

SpecAdminLog == InitAdminLog /\ [][NextAdminLog]_vars

\* C19: save_admin_log pages until a page comes back empty or the budget is
\* used up, a budget of 0 standing for no limit: with max_chunks = 0 and
\* more events than one page holds, the paging loop ends on an empty page,
\* having fetched and dumped every event.
C19_UnlimitedFetchesAll ==
    (pc = "admin_draining" /\ start.max_chunks = 0 /\ top > AdminLimit) =>
        /\ exitBy = "empty"
        /\ FetchedIds(pages) = 1..top
        /\ 1..top \subseteq tx.events

\* C20: in save_messages and in save_admin_log alike, a commit follows every
\* processed page and every drain step, so that at the return (the drain
\* loop finds the queue empty, also when it was empty from the start)
\* nothing written is left uncommitted.
C20_CommitAfterEveryStep ==
    /\ (pc \in {"paging", "draining", "admin_paging", "admin_draining"}
          /\ pages # <<>>) => tx = db
    /\ (pc \in {"draining", "admin_draining"} /\ ed.pending = <<>>) =>
           tx = db

\* ------------------------------------------- entities resolved while paging
\* The peer ids whose _dump_entity makes a full-info request (lines 75-76 and
\* 87-88): those of users and channels, not those of basic groups.
NeedsFull(eid) == eid > 0 \/ eid < 0 - 1000000000

FullIds(q) == {eid \in q.dumped_ids : NeedsFull(eid)}

\* C21: an iteration of the paging loop that runs to its end pops exactly
\* one entity, the head of the queue as the page's Offer left it, and
\* resolves it with one full-info request; it pops none when that queue is
\* empty; and while paging the entities resolved by a full-info request
\* never outnumber the pages fetched.
C21_OnePopPerPage ==
    [][(pc = "paging" /\ pc' \in {"paging", "draining"}
          /\ Len(pages') = Len(pages) + 1) =>
          LET resolved == FullIds(ed') \ FullIds(ed)
          IN  /\ Cardinality(resolved) <= 1
              /\ ed.pending # <<>> =>
                     /\ resolved = {get_peer_id(Head(ed.pending))}
                     /\ Len(ed'.pending) >= Len(ed.pending) - 1
                     /\ \A i \in 2..Len(ed.pending) :
                            ed'.pending[i - 1] = ed.pending[i]
              /\ resolved = {} => ed'.pending = <<>>
              /\ resolved # {} =>
                     /\ resolved \subseteq ed'.dumped_ids
                     /\ resolved \cap ed'.pending_ids = {}
                     /\ resolved \subseteq tx'.entities
              /\ Cardinality(FullIds(ed')) <= Len(pages')]_vars

\* C21 witness: two pages in, each has resolved one entity and one more is
\* still queued.
C21_Witness ==
    /\ pc = "paging"
    /\ Len(pages) = 2
    /\ Cardinality(FullIds(ed)) = 2
    /\ ed.pending # <<>>

\* ------------------------------------------------- runs that are not cut
\* save_messages against a remote that raises nothing, in a process that is
\* not killed: a run that has started goes on to its next step. The history
\* is finite and does not grow meanwhile; the conversation is a private
\* dialog, so INIT lists no participants.
InitRun == Init /\ target = User2

NextRun ==
    \/ StartRun
    \/ Page
    \/ DrainStep
    \/ Finish

RunFairness ==
    /\ WF_vars(Page)
    /\ WF_vars(DrainStep)
    /\ WF_vars(Finish)

SpecRun == InitRun /\ [][NextRun]_vars /\ RunFairness

\* DONE: the drain loop finds the queue empty (line 420) and the function
\* returns.
DoneReached == pc = "draining" /\ ed.pending = <<>>

\* C22: with a finite history and no error, a run that entered PAGING
\* reaches DONE; PAGING is followed by PAGING or DRAINING_ENTITIES only,
\* DRAINING_ENTITIES by itself or by the return, which is taken with an
\* empty queue only; and once draining has begun no page is fetched and the
\* request is left alone.
C22_RunTerminates ==
    /\ (pc = "paging") ~> DoneReached
    /\ [][/\ pc = "idle" => pc' \in {"idle", "paging"}
          /\ pc = "paging" => pc' \in {"paging", "draining"}
          /\ pc = "draining" => pc' \in {"draining", "idle"}
          /\ (pc = "draining" /\ pc' = "idle") => ed.pending = <<>>
          /\ (pc = "draining" /\ pc' = "draining") =>
                 /\ pages' = pages
                 /\ req' = req
                 /\ tx'.msgs = tx.msgs
                 /\ Len(ed'.pending) <= Len(ed.pending)]_vars

\* C22 witness: DONE is reached after two pages and a drain step that
\* resolved an entity paging had left queued.
C22_Witness ==
    /\ DoneReached
    /\ Len(pages) = 2
    /\ exitBy = "a"
    /\ Cardinality(FullIds(ed)) > Len(pages)

\* ------------------------------------------------ the runs and their errors
\* save_messages on a channel, with the outcome of the participant listing
\* kept in start.listing and every exception that leaves the function noted
\* in exitBy. The process is not killed and the history does not grow.
InitErrors ==
    /\ top \in 1..MaxTop
    /\ chunk_size \in 1..MaxLimit
    /\ target = Channel1
    /\ db = EmptyStore
    /\ tx = EmptyStore
    /\ pc = "idle"
    /\ req = NoReq
    /\ stop_at = 0
    /\ chunks_left = 0
    /\ ed = NewEntityDownloader
    /\ entbar = 0
    /\ appended = FALSE
    /\ completed = 0
    /\ firstDone = NoDone
    /\ start = NoStart
    /\ pages = <<>>
    /\ exitBy = "none"
    /\ queueOp = NoOp
    /\ clock = NoClock
    /\ codec = NoCodec
    /\ mediaOp = NoMediaOp
    /\ audit = "errors"

NextErrors ==
    \/ StartRun
    \/ StartRunRaises
    \/ Page
    \/ PageRaises
    \/ DrainStep
    \/ DrainRaises
    \/ Finish

SpecErrors == InitErrors /\ [][NextErrors]_vars

\* C23: ChatAdminRequiredError from the participant listing of INIT is
\* caught: the run enters PAGING with the store, the cursor and the queue it
\* would have had without the listing. An error from any other remote call
\* (a history page, a full-info request, a download) leaves save_messages:
\* the run is over, its locals are gone, nothing of the failed step is
\* committed, and no request follows in that run; what comes next is a new
\* run from INIT.
C23_PermissionErrors ==
    /\ [](exitBy = "raised" =>
            pc = "idle" /\ ed = NewEntityDownloader /\ tx = db)
    /\ [](\A i \in 1..(Len(pages) - 1) : pages[i].saved # <<>>)
    /\ [][/\ (pc = "idle" /\ pc' = "paging"
                /\ start'.listing = "not_admin") =>
                 /\ tx'.participants = tx.participants
                 /\ tx'.msgs = tx.msgs
                 /\ tx'.resume = tx.resume
                 /\ db' = db
                 /\ req'.offset_id = tx.resume.id
                 /\ req'.offset_date = tx.resume.date
                 /\ stop_at' = tx.resume.stop_at
                 /\ ed' = enqueue(NewEntityDownloader, target)
          /\ (exitBy' = "raised" /\ pc # "idle") =>
                 /\ pc' = "idle"
                 /\ db' = db
                 /\ tx' = db
                 /\ Len(pages') <= Len(pages) + 1
          /\ (exitBy = "raised" /\ pc' # "idle") =>
                 /\ pc' = "paging"
                 /\ pages' = <<>>
                 /\ exitBy' = "none"]_vars

\* C23 witness: a run whose participant listing was refused went on to
\* fetch and commit a page, and was then ended by an error in the next one.
C23_Witness ==
    /\ exitBy = "raised"
    /\ start.listing = "not_admin"
    /\ Len(pages) = 2
    /\ pages[1].saved # <<>>
    /\ db.msgs # {}
    /\ ~db.participants

\* ------------------------------------------------------ basic groups (Chat)
\* The peer ids of basic groups: negative, above the channels' base.
IsChatId(eid) == eid < 0 /\ ~NeedsFull(eid)

\* C24: a Chat offered to the queue is dumped on the spot and marked dumped,
\* with no full-info request and without touching the deque; no Chat is ever
\* pending; and the delay _dump_entity recommends is 0 for a Chat and more
\* than 0 for a User or a Channel, so that a pop that resolves an entity
\* always recommends more than 0.
C24_ChatsBypassQueue ==
    /\ [](/\ \A i \in 1..Len(ed.pending) : ed.pending[i].type # "Chat"
          /\ \A eid \in ed.pending_ids \cup PendingPeerIds(ed) :
                 ~IsChatId(eid)
          /\ \A e \in QueueEntities :
                 ~Dropped(e) =>
                     LET r == dump_entity([ed |-> ed, dumper |-> tx], e, "ok")
                     IN  /\ r.sleep = 0 <=> e.type = "Chat"
                         /\ r.sleep > 0 <=> e.type \in {"User", "Channel"})
    /\ [][/\ (queueOp'.op = "offer" /\ ~queueOp'.raised) =>
                 LET es == queueOp'.entities
                     chats == {get_peer_id(es[i]) :
                                 i \in {j \in 1..Len(es) :
                                          es[j].type = "Chat"}}
                 IN  /\ chats \subseteq ed'.dumped_ids
                     /\ chats \subseteq tx'.entities
                     /\ FullIds(ed') = FullIds(ed)
                     /\ (\A i \in 1..Len(es) :
                            es[i].type = "Chat" \/ C11_Excluded(es[i])) =>
                            /\ ed'.pending = ed.pending
                            /\ ed'.pending_ids = ed.pending_ids
          /\ (queueOp'.op = "pop" /\ ~queueOp'.raised) =>
                 queueOp'.sleep = IF queueOp'.empty THEN 0 ELSE 1]_vars

\* C24 witness: a Chat was offered together with a User; the Chat is dumped
\* and the User is the one entity queued.
C24_Witness ==
    /\ queueOp.op = "offer"
    /\ queueOp.entities = <<Chat1, User1>>
    /\ ~queueOp.raised
    /\ get_peer_id(Chat1) \in ed.dumped_ids
    /\ get_peer_id(Chat1) \in tx.entities
    /\ ed.pending = <<User1>>

\* ------------------------------------------------- media: type and whitelist
\* Python values of this part: a str and the bool False.
Str(name) == [py |-> "str", v |-> name]
PyFalse == [py |-> "bool", v |-> "False"]

VALID_TYPES ==
    {"photo", "document", "video", "audio", "sticker", "voice", "chatphoto"}

\* A message's media: None, or an object of one of telethon's MessageMedia
\* classes; a MessageMediaDocument carries its document's attributes.
\* "DocumentAttributeVoice" stands for a DocumentAttributeAudio whose voice
\* flag is set.
MaxAttributes == 2

Attributes ==
    {"DocumentAttributeSticker", "DocumentAttributeVideo",
     "DocumentAttributeAudio", "DocumentAttributeVoice",
     "DocumentAttributeFilename"}

MediaNone == [cls |-> "None", attributes |-> <<>>]

Medias ==
    {MediaNone,
     [cls |-> "MessageMediaPhoto", attributes |-> <<>>],
     [cls |-> "MessageMediaGeo", attributes |-> <<>>]}
    \cup {[cls |-> "MessageMediaDocument", attributes |-> a] :
             a \in UNION {[1..n -> Attributes] : n \in 0..MaxAttributes}}

\* isinstance(obj, cls): the classes of telethon.tl.types named here are
\* generated one per constructor and none derives from another.
isinstance(obj, cls) == obj.cls = cls

\* Lines 202-211: the loop over the attributes, from index i on.
RECURSIVE type_of_attributes(_, _)
type_of_attributes(attributes, i) ==
    IF i > Len(attributes) THEN Str("document")
    ELSE CASE attributes[i] = "DocumentAttributeSticker" -> Str("sticker")
           [] attributes[i] = "DocumentAttributeVideo"   -> Str("video")
           [] attributes[i] = "DocumentAttributeVoice"   -> Str("voice")
           [] attributes[i] = "DocumentAttributeAudio"   -> Str("audio")
           [] OTHER -> type_of_attributes(attributes, i + 1)

\* Downloader._get_media_type(media), lines 191-212.
get_media_type(media) ==
    IF media = MediaNone THEN Str("")
    ELSE IF isinstance(media, "MessageMediaPhoto") THEN Str("photo")
    ELSE IF isinstance(media, "MessageMediaDocument")
    THEN IF ~isinstance(media, "Document") THEN PyFalse
         ELSE type_of_attributes(media.attributes, 1)
    ELSE Str("unknown")

\* Downloader.__init__, lines 181-188: the whitelist as a set of type names,
\* 'unknown' added to a whitelist that is not empty.
init_types(whitelist) ==
    IF whitelist # {}
    THEN {Str(x) : x \in whitelist} \cup {Str("unknown")}
    ELSE {}

\* Downloader.check_media(media), lines 218-226.
check_media(self, media) ==
    IF media = MediaNone \/ self.max_size = 0 THEN FALSE
    ELSE IF self.types = {} THEN TRUE
    ELSE get_media_type(media) \in self.types

\* The configurations: MediaWhitelist and MaxSize.
Whitelists ==
    {{}} \cup {{t} : t \in VALID_TYPES} \cup {{"photo", "document"}}

MaxSizes == {0, 1}

InitMedia ==
    /\ top = 1
    /\ chunk_size = 1
    /\ target = User2
    /\ db = EmptyStore
    /\ tx = EmptyStore
    /\ pc = "media"
    /\ req = NoReq
    /\ stop_at = 0
    /\ chunks_left = 0
    /\ ed = NewEntityDownloader
    /\ entbar = 0
    /\ appended = FALSE
    /\ completed = 0
    /\ firstDone = NoDone
    /\ start = NoStart
    /\ pages = <<>>
    /\ exitBy = "none"
    /\ queueOp = NoOp
    /\ clock = NoClock
    /\ codec = NoCodec
    /\ audit = "off"
    /\ \E media \in Medias, whitelist \in Whitelists, max_size \in MaxSizes :
         mediaOp = [stage |-> "input", media |-> media,
                    whitelist |-> whitelist,
                    self |-> [types |-> init_types(whitelist),
                              max_size |-> max_size],
                    type |-> Str(""), accepted |-> FALSE]

mediaFrame ==
    <<top, chunk_size, target, db, tx, pc, req, stop_at, chunks_left, ed,
      entbar, appended, completed, firstDone, start, pages, exitBy, queueOp,
      clock, codec, audit>>

\* _get_media_type(media)
Classify ==
    /\ pc = "media"
    /\ mediaOp.stage = "input"
    /\ mediaOp' = [mediaOp EXCEPT !.stage = "classified",
                                  !.type = get_media_type(mediaOp.media)]
    /\ UNCHANGED mediaFrame

\* check_media(media), line 346
Check ==
    /\ pc = "media"
    /\ mediaOp.stage = "classified"
    /\ mediaOp' = [mediaOp EXCEPT
                      !.stage = "checked",
                      !.accepted = check_media(mediaOp.self, mediaOp.media)]
    /\ UNCHANGED mediaFrame

NextMedia ==
    \/ Classify
    \/ Check

SpecMedia == InitMedia /\ [][NextMedia]_vars

\* The taxonomy as the claim states it: photo media is photo; document media
\* is sticker, video, voice or audio by its first such attribute, and
\* document without one; anything else is unknown.
C25_FirstKind(attributes) ==
    LET hits == {i \in 1..Len(attributes) :
                   attributes[i] # "DocumentAttributeFilename"}
    IN  IF hits = {} THEN "document"
        ELSE CASE attributes[Min(hits)] = "DocumentAttributeSticker" ->
                      "sticker"
               [] attributes[Min(hits)] = "DocumentAttributeVideo" -> "video"
               [] attributes[Min(hits)] = "DocumentAttributeVoice" -> "voice"
               [] OTHER -> "audio"

C25_Taxonomy(media) ==
    CASE media.cls = "MessageMediaPhoto"    -> "photo"
      [] media.cls = "MessageMediaDocument" -> C25_FirstKind(media.attributes)
      [] OTHER                              -> "unknown"

\* C25: every media that is not None is classified by that taxonomy; with a
\* whitelist that is not empty and a size limit that is not 0, check_media
\* accepts it exactly when its type is whitelisted or unknown; with an empty
\* whitelist it accepts every media.
C25_ClassifiedAndChecked ==
    (mediaOp.stage = "checked" /\ mediaOp.media # MediaNone) =>
        LET kind == C25_Taxonomy(mediaOp.media)
        IN  /\ mediaOp.type = Str(kind)
            /\ (mediaOp.whitelist # {} /\ mediaOp.self.max_size # 0) =>
                   (mediaOp.accepted <=>
                        kind \in mediaOp.whitelist \cup {"unknown"})
            /\ (mediaOp.whitelist = {} /\ mediaOp.self.max_size # 0) =>
                   mediaOp.accepted

\* ------------------------------------------------- entities offered again
\* C26: an entity is dumped at most once however often it is offered: an
\* Offer never hands to _dump_entity an entity whose peer id is already
\* dumped, and an Offer of entities that are all dumped or pending already
\* writes nothing, downloads no photo (so it cannot raise) and leaves the
\* queue as it was.
C26_OfferedAgainNoEffect ==
    [][(queueOp'.op = "offer" /\ pc = "queue") =>
          LET es == queueOp'.entities
              calls == queueOp'.dumped
              seen == ed.dumped_ids \cup ed.pending_ids
          IN  /\ \A i \in 1..Len(calls) :
                     get_peer_id(calls[i]) \notin ed.dumped_ids
              /\ (es # <<>> /\ \A i \in 1..Len(es) :
                                  get_peer_id(es[i]) \in seen) =>
                     /\ calls = <<>>
                     /\ ~queueOp'.raised
                     /\ tx' = tx
                     /\ ed' = ed]_vars
====
